---- MODULE Spec2Model ----
(***************************************************************************)
(* A model of vector.h: a growable array over a pluggable allocator.       *)
(*                                                                         *)
(* The C functions are operators on a machine record                       *)
(*   m = [v, heap, live, ndebug, status, calls, ret]                       *)
(* where v is the Vector struct, heap maps a block address to its bytes,   *)
(* live is the set of blocks allocated and not released, ndebug tells      *)
(* whether assert() is compiled out, status is the process ("run", "abort" *)
(* after a failed assert, "ub" after undefined behaviour), calls is the    *)
(* log of the allocator calls the operation made and ret its return value. *)
(* size_t is an unsigned integer of W bits.                                *)
(***************************************************************************)
EXTENDS Integers, Sequences, FiniteSets, TLC

VARIABLES v, heap, live, ndebug, status, last, hist

vars == <<v, heap, live, ndebug, status, last, hist>>

(***************************************************************************)
(* Bounds of the model.                                                    *)
(***************************************************************************)
W == 6
MaxSize == 3
MaxPush == 9
MaxAddr == 2

(***************************************************************************)
(* Program constants.                                                      *)
(***************************************************************************)
MaxDestroy == 2
GROWTH_FACTOR == 2
INITIAL_CAPACITY == 8
NULL == 0

SIZE_MAX == 2^W - 1
Wrap(x) == x % (SIZE_MAX + 1)

Addr == 1..MaxAddr
Uninit == 0
NoElem == <<>>

Min(S) == CHOOSE a \in S : \A b \in S : a <= b

(***************************************************************************)
(* Allocator records: a slot is TRUE when the function pointer is non-null.*)
(***************************************************************************)
malloc_allocator == [alloc |-> TRUE, realloc |-> TRUE, free |-> TRUE, ctx |-> NULL]

Allocators ==
    {malloc_allocator} \cup
    {[alloc |-> TRUE, realloc |-> r, free |-> f, ctx |-> 1] :
        r \in BOOLEAN, f \in {FALSE}} \cup
    {[alloc |-> TRUE, realloc |-> FALSE, free |-> TRUE, ctx |-> 1]}

(***************************************************************************)
(* Results of a C function on the machine record.                          *)
(***************************************************************************)
Return(m, r) == [m EXCEPT !.ret = r]
Abort(m) == [m EXCEPT !.status = "abort", !.ret = "none"]
Undefined(m) == [m EXCEPT !.status = "ub", !.ret = "none"]
AssertZero(m) == IF m.ndebug THEN Return(m, "false") ELSE Abort(m)
Logged(m, c) == [m EXCEPT !.calls = Append(@, c)]

(***************************************************************************)
(* The allocator behind the three slots.  oc is the outcome the allocator  *)
(* chooses: "fail", or success "inplace" or by a "move" (realloc only).    *)
(* A fresh block is the lowest address not live; when every address is     *)
(* live the memory is exhausted and the call fails.                        *)
(***************************************************************************)
Resized(bytes, size) ==
    [i \in 1..size |-> IF i <= Len(bytes) THEN bytes[i] ELSE Uninit]

alloc_fn(m, size, oc) ==
    IF ~m.v.alloc.alloc THEN [m |-> Undefined(m), p |-> NULL]
    ELSE IF oc = "fail" \/ Addr \ m.live = {}
    THEN [m |-> Logged(m, <<"alloc", size, NULL>>), p |-> NULL]
    ELSE LET a == Min(Addr \ m.live)
         IN  [m |-> [Logged(m, <<"alloc", size, a>>) EXCEPT
                        !.live = @ \cup {a},
                        !.heap[a] = Resized(<<>>, size)],
              p |-> a]

realloc_fn(m, ptr, size, oc) ==
    IF ~m.v.alloc.realloc \/ (ptr # NULL /\ ptr \notin m.live) THEN [m |-> Undefined(m), p |-> NULL]
    ELSE IF oc = "fail" \/ (oc = "move" /\ Addr \ m.live = {})
               \/ (ptr = NULL /\ Addr \ m.live = {})
    THEN [m |-> Logged(m, <<"realloc", size, NULL>>), p |-> NULL]
    ELSE IF ptr = NULL
    THEN LET a == Min(Addr \ m.live)
         IN  [m |-> [Logged(m, <<"realloc", size, a>>) EXCEPT
                        !.live = @ \cup {a},
                        !.heap[a] = Resized(<<>>, size)],
              p |-> a]
    ELSE IF oc = "inplace"
    THEN [m |-> [Logged(m, <<"realloc", size, ptr>>) EXCEPT
                    !.heap[ptr] = Resized(@, size)],
          p |-> ptr]
    ELSE LET a == Min(Addr \ m.live)
         IN  [m |-> [Logged(m, <<"realloc", size, a>>) EXCEPT
                        !.live = (@ \ {ptr}) \cup {a},
                        !.heap[a] = Resized(SubSeq(m.heap[ptr], 1,
                                        IF size < Len(m.heap[ptr]) THEN size
                                        ELSE Len(m.heap[ptr])), size),
                        !.heap[ptr] = <<>>],
              p |-> a]

free_fn(m, ptr) ==
    IF ~m.v.alloc.free THEN Undefined(m)
    ELSE IF ptr = NULL THEN Logged(m, <<"free", 0, ptr>>)
    ELSE IF ptr \notin m.live THEN Undefined(m)
    ELSE [Logged(m, <<"free", 0, ptr>>) EXCEPT
             !.live = @ \ {ptr}, !.heap[ptr] = <<>>]

(***************************************************************************)
(* memcpy and memmove on the heap: an access outside a live block is       *)
(* undefined behaviour.                                                    *)
(***************************************************************************)
InBlock(m, p, off, n) ==
    n = 0 \/ (p # NULL /\ p \in m.live /\ off + n <= Len(m.heap[p]))

Poke(m, p, off, bytes) ==
    IF ~InBlock(m, p, off, Len(bytes)) THEN Undefined(m)
    ELSE IF Len(bytes) = 0 THEN m
    ELSE [m EXCEPT !.heap[p] =
            [i \in 1..Len(@) |->
                IF off < i /\ i <= off + Len(bytes) THEN bytes[i - off] ELSE @[i]]]

Peek(m, p, off, n) == SubSeq(m.heap[p], off + 1, off + n)

memcpy(m, dst, doff, src, soff, n) ==
    IF ~InBlock(m, src, soff, n) THEN Undefined(m)
    ELSE Poke(m, dst, doff, IF n = 0 THEN <<>> ELSE Peek(m, src, soff, n))

memmove(m, p, doff, soff, n) == memcpy(m, p, doff, p, soff, n)

(***************************************************************************)
(* vector_is_valid; vp is FALSE for a null Vector pointer.                 *)
(***************************************************************************)
vector_is_valid(vp, vec) ==
    /\ vp
    /\ ~(vec.size > vec.capacity)
    /\ ~(vec.capacity > 0 /\ vec.data = NULL)
    /\ vec.alloc.alloc
    /\ ~(vec.elem_size = 0)

vector_init_asserts(alloc, elem_size) ==
    alloc.alloc /\ elem_size > 0

vector_init(alloc, elem_size) ==
    [size |-> 0, capacity |-> 0, elem_size |-> elem_size, data |-> NULL,
     alloc |-> alloc]

\* The call Vector v = vector_init(alloc, elem_size): the two assertions are
\* the only checks, so with asserts compiled out every argument is accepted.
vector_init_call(m, alloc, elem_size) ==
    IF ~m.ndebug /\ ~vector_init_asserts(alloc, elem_size) THEN Abort(m)
    ELSE Return([m EXCEPT !.v = vector_init(alloc, elem_size)], "vector")

(***************************************************************************)
(* vector_reserve                                                          *)
(***************************************************************************)

\* Mutant: the early return taken only for a strictly smaller request.
reserve_is_noop_strict(vec, new_capacity) == new_capacity < vec.capacity

reserve_is_noop(vec, new_capacity) == new_capacity <= vec.capacity

\* Mutant: the overflow test made on the product, after it has wrapped.
reserve_overflows_wrapped(vec, new_capacity) ==
    vec.elem_size # 0 /\ Wrap(new_capacity * vec.elem_size) > SIZE_MAX
reserve_overflows(vec, new_capacity) ==
    vec.elem_size # 0 /\ new_capacity > SIZE_MAX \div vec.elem_size


\* Mutant: realloc is called without testing that the slot is there.
reserve_uses_realloc_unchecked(vec) == vec.data # NULL

reserve_uses_realloc(vec) == vec.data # NULL /\ vec.alloc.realloc

\* Mutant: v->data = realloc(v->data, ...) assigned before the null test.
reserve_realloc_overwrite(m, new_capacity, alloc_size, oc) ==
    LET r == realloc_fn(m, m.v.data, alloc_size, oc)
    IN  IF r.m.status # "run" THEN r.m
        ELSE IF r.p = NULL THEN AssertZero([r.m EXCEPT !.v.data = NULL])
        ELSE Return([r.m EXCEPT !.v.data = r.p, !.v.capacity = new_capacity],
                    "true")
reserve_realloc(m, new_capacity, alloc_size, oc) ==
    LET r == realloc_fn(m, m.v.data, alloc_size, oc)
    IN  IF r.m.status # "run" THEN r.m
        ELSE IF r.p = NULL THEN AssertZero(r.m)
        ELSE Return([r.m EXCEPT !.v.data = r.p, !.v.capacity = new_capacity],
                    "true")


\* Mutant: the copy into the new block counts elements, not bytes.
reserve_alloc_short(m, new_capacity, alloc_size, oc) ==
    LET r == alloc_fn(m, alloc_size, oc)
    IN  IF r.m.status # "run" THEN r.m
        ELSE IF r.p = NULL THEN AssertZero(r.m)
        ELSE LET c == IF m.v.data # NULL
                      THEN memcpy(r.m, r.p, 0, m.v.data, 0, m.v.size)
                      ELSE r.m
                 f == IF m.v.data # NULL /\ m.v.alloc.free /\ c.status = "run"
                      THEN free_fn(c, m.v.data)
                      ELSE c
             IN  IF f.status # "run" THEN f
                 ELSE Return([f EXCEPT !.v.data = r.p,
                                       !.v.capacity = new_capacity], "true")
reserve_alloc(m, new_capacity, alloc_size, oc) ==
    LET r == alloc_fn(m, alloc_size, oc)
    IN  IF r.m.status # "run" THEN r.m
        ELSE IF r.p = NULL THEN AssertZero(r.m)
        ELSE LET c == IF m.v.data # NULL
                      THEN memcpy(r.m, r.p, 0, m.v.data, 0,
                                  Wrap(m.v.size * m.v.elem_size))
                      ELSE r.m
                 f == IF m.v.data # NULL /\ m.v.alloc.free /\ c.status = "run"
                      THEN free_fn(c, m.v.data)
                      ELSE c
             IN  IF f.status # "run" THEN f
                 ELSE Return([f EXCEPT !.v.data = r.p,
                                       !.v.capacity = new_capacity], "true")

vector_reserve(m, vp, new_capacity, oc) ==
    IF ~m.ndebug /\ ~vector_is_valid(vp, m.v) THEN Abort(m)
    ELSE IF ~vp THEN Return(m, "false")
    ELSE IF reserve_is_noop(m.v, new_capacity) THEN Return(m, "true")
    ELSE IF reserve_overflows(m.v, new_capacity) THEN AssertZero(m)
    ELSE LET alloc_size == Wrap(new_capacity * m.v.elem_size)
         IN  IF reserve_uses_realloc(m.v)
             THEN reserve_realloc(m, new_capacity, alloc_size, oc)
             ELSE reserve_alloc(m, new_capacity, alloc_size, oc)

(***************************************************************************)
(* vector_clear                                                            *)
(***************************************************************************)

\* Mutant: clear also forgets the capacity.
vector_clear_capacity(m, vp) ==
    IF ~m.ndebug /\ ~vector_is_valid(vp, m.v) THEN Abort(m)
    ELSE IF vp THEN Return([m EXCEPT !.v.size = 0, !.v.capacity = 0], "void")
    ELSE Return(m, "void")
vector_clear(m, vp) ==
    IF ~m.ndebug /\ ~vector_is_valid(vp, m.v) THEN Abort(m)
    ELSE IF vp THEN Return([m EXCEPT !.v.size = 0], "void")
    ELSE Return(m, "void")

(***************************************************************************)
(* vector_destroy: no assertion; the block is released through free when   *)
(* both are present, then every field is zeroed.                           *)
(***************************************************************************)
ZeroVector ==
    [size |-> 0, capacity |-> 0, elem_size |-> 0, data |-> NULL,
     alloc |-> [alloc |-> FALSE, realloc |-> FALSE, free |-> FALSE,
                ctx |-> NULL]]

\* Mutant: the allocator record is left in place.
vector_destroy_keepalloc(m, vp) ==
    IF ~vp THEN Return(m, "void")
    ELSE LET f == IF m.v.data # NULL /\ m.v.alloc.free
                  THEN free_fn(m, m.v.data)
                  ELSE m
         IN  IF f.status # "run" THEN f
             ELSE Return([f EXCEPT !.v = [ZeroVector EXCEPT
                                             !.elem_size = m.v.elem_size,
                                             !.alloc = m.v.alloc]], "void")

vector_destroy(m, vp) ==
    IF ~vp THEN Return(m, "void")
    ELSE LET f == IF m.v.data # NULL /\ m.v.alloc.free
                  THEN free_fn(m, m.v.data)
                  ELSE m
         IN  IF f.status # "run" THEN f
             ELSE Return([f EXCEPT !.v = ZeroVector], "void")

(***************************************************************************)
(* grow_vector                                                             *)
(***************************************************************************)

\* Mutant: growth by half the capacity instead of doubling.
grow_capacity_half(capacity) ==
    IF capacity = 0 THEN INITIAL_CAPACITY
    ELSE IF capacity > SIZE_MAX \div GROWTH_FACTOR THEN SIZE_MAX
    ELSE capacity + capacity \div GROWTH_FACTOR
grow_capacity(capacity) ==
    IF capacity = 0 THEN INITIAL_CAPACITY
    ELSE IF capacity > SIZE_MAX \div GROWTH_FACTOR THEN SIZE_MAX
    ELSE capacity * GROWTH_FACTOR

grow_vector(m, oc) == vector_reserve(m, TRUE, grow_capacity(m.v.capacity), oc)

\* Mutant: the growth is taken one element early.
needs_growth_early(vec) == vec.size + 1 >= vec.capacity

needs_growth(vec) == vec.size = vec.capacity

(***************************************************************************)
(* vector_push                                                             *)
(***************************************************************************)
push_store(m, elem) ==
    LET w == Poke(m, m.v.data, Wrap(m.v.size * m.v.elem_size),
                  SubSeq(elem, 1, m.v.elem_size))
    IN  IF w.status # "run" THEN w
        ELSE Return([w EXCEPT !.v.size = Wrap(@ + 1)], "true")

push_rejects(vp, elem) == ~vp \/ elem = NoElem

vector_push(m, vp, elem, oc) ==
    IF ~m.ndebug /\ ~vector_is_valid(vp, m.v) THEN Abort(m)
    ELSE IF ~m.ndebug /\ elem = NoElem THEN Abort(m)
    ELSE IF push_rejects(vp, elem) THEN Return(m, "false")
    ELSE IF needs_growth(m.v)
    THEN LET g == grow_vector(m, oc)
         IN  IF g.status # "run" \/ g.ret # "true" THEN g
             ELSE push_store(g, elem)
    ELSE push_store(m, elem)

(***************************************************************************)
(* vector_insert                                                           *)
(***************************************************************************)

\* Mutant: the element is written without shifting the tail up.
insert_store_noshift(m, index, elem) ==
    LET es == m.v.elem_size
        w == Poke(m, m.v.data, Wrap(index * es), SubSeq(elem, 1, es))
    IN  IF w.status # "run" THEN w
        ELSE Return([w EXCEPT !.v.size = Wrap(@ + 1)], "true")
insert_store(m, index, elem) ==
    LET es == m.v.elem_size
        s == memmove(m, m.v.data, Wrap((index + 1) * es), Wrap(index * es),
                     Wrap((m.v.size - index) * es))
        w == IF s.status # "run" THEN s
             ELSE Poke(s, m.v.data, Wrap(index * es), SubSeq(elem, 1, es))
    IN  IF w.status # "run" THEN w
        ELSE Return([w EXCEPT !.v.size = Wrap(@ + 1)], "true")


\* Mutant: the index is not tested.
insert_rejects_noindex(vec, vp, index, elem) == ~vp \/ elem = NoElem
\* Mutant: an insert at index = size is rejected too.
insert_rejects_atend(vec, vp, index, elem) ==
    ~vp \/ elem = NoElem \/ index >= vec.size

insert_rejects(vec, vp, index, elem) ==
    ~vp \/ elem = NoElem \/ index > vec.size

vector_insert(m, vp, index, elem, oc) ==
    IF ~m.ndebug /\ ~vector_is_valid(vp, m.v) THEN Abort(m)
    ELSE IF ~m.ndebug /\ elem = NoElem THEN Abort(m)
    ELSE IF ~m.ndebug /\ ~(index <= m.v.size) THEN Abort(m)
    ELSE IF insert_rejects(m.v, vp, index, elem) THEN Return(m, "false")
    ELSE IF needs_growth(m.v)
    THEN LET g == grow_vector(m, oc)
         IN  IF g.status # "run" \/ g.ret # "true" THEN g
             ELSE insert_store(g, index, elem)
    ELSE insert_store(m, index, elem)

(***************************************************************************)
(* vector_erase                                                            *)
(***************************************************************************)

\* Mutant: the tail is shifted down but the size is not decremented.
erase_shift_keepsize(m, index) ==
    LET es == m.v.elem_size
        s == memmove(m, m.v.data, Wrap(index * es), Wrap((index + 1) * es),
                     Wrap((m.v.size - index - 1) * es))
    IN  IF s.status # "run" THEN s
        ELSE Return(s, "true")

\* Mutant: the size is decremented without shifting the tail down.
erase_shift_noshift(m, index) ==
    Return([m EXCEPT !.v.size = Wrap(@ - 1)], "true")
erase_shift(m, index) ==
    LET es == m.v.elem_size
        s == memmove(m, m.v.data, Wrap(index * es), Wrap((index + 1) * es),
                     Wrap((m.v.size - index - 1) * es))
    IN  IF s.status # "run" THEN s
        ELSE Return([s EXCEPT !.v.size = Wrap(@ - 1)], "true")

\* Mutant: the last element cannot be erased.
erase_rejects_last(vec, vp, index) == ~vp \/ index + 1 >= vec.size

erase_rejects(vec, vp, index) == ~vp \/ index >= vec.size

vector_erase(m, vp, index) ==
    IF ~m.ndebug /\ ~vector_is_valid(vp, m.v) THEN Abort(m)
    ELSE IF ~m.ndebug /\ ~(index < m.v.size) THEN Abort(m)
    ELSE IF erase_rejects(m.v, vp, index) THEN Return(m, "false")
    ELSE erase_shift(m, index)

(***************************************************************************)
(* vector_pop                                                              *)
(***************************************************************************)

\* Mutant: the empty vector is not tested.
pop_rejects_nonempty(vec, vp) == ~vp
pop_rejects(vec, vp) == ~vp \/ vec.size = 0

vector_pop(m, vp) ==
    IF ~m.ndebug /\ ~vector_is_valid(vp, m.v) THEN Abort(m)
    ELSE IF ~m.ndebug /\ ~(m.v.size > 0) THEN Abort(m)
    ELSE IF pop_rejects(m.v, vp) THEN Return(m, "false")
    ELSE Return([m EXCEPT !.v.size = Wrap(@ - 1)], "true")

(***************************************************************************)
(* vector_shrink_to_fit                                                    *)
(***************************************************************************)
\* Mutant: the data pointer is kept after the block is released.
shrink_empty_dangling(m) ==
    LET f == IF m.v.alloc.free THEN free_fn(m, m.v.data) ELSE m
    IN  IF f.status # "run" THEN f
        ELSE Return([f EXCEPT !.v.capacity = 0], "true")

shrink_empty(m) ==
    LET f == IF m.v.alloc.free THEN free_fn(m, m.v.data) ELSE m
    IN  IF f.status # "run" THEN f
        ELSE Return([f EXCEPT !.v.data = NULL, !.v.capacity = 0], "true")


\* Mutant: the capacity is not updated after the realloc.
shrink_realloc_keepcap(m, alloc_size, oc) ==
    LET r == realloc_fn(m, m.v.data, alloc_size, oc)
    IN  IF r.m.status # "run" THEN r.m
        ELSE IF r.p = NULL THEN AssertZero(r.m)
        ELSE Return([r.m EXCEPT !.v.data = r.p], "true")
shrink_realloc(m, alloc_size, oc) ==
    LET r == realloc_fn(m, m.v.data, alloc_size, oc)
    IN  IF r.m.status # "run" THEN r.m
        ELSE IF r.p = NULL THEN AssertZero(r.m)
        ELSE Return([r.m EXCEPT !.v.data = r.p, !.v.capacity = m.v.size],
                    "true")

shrink_alloc(m, alloc_size, oc) ==
    LET r == alloc_fn(m, alloc_size, oc)
    IN  IF r.m.status # "run" THEN r.m
        ELSE IF r.p = NULL THEN AssertZero(r.m)
        ELSE LET c == memcpy(r.m, r.p, 0, m.v.data, 0, alloc_size)
                 f == IF m.v.alloc.free /\ c.status = "run"
                      THEN free_fn(c, m.v.data)
                      ELSE c
             IN  IF f.status # "run" THEN f
                 ELSE Return([f EXCEPT !.v.data = r.p,
                                       !.v.capacity = m.v.size], "true")

vector_shrink_to_fit(m, vp, oc) ==
    IF ~m.ndebug /\ ~vector_is_valid(vp, m.v) THEN Abort(m)
    ELSE IF ~vp THEN Return(m, "false")
    ELSE IF m.v.size = m.v.capacity THEN Return(m, "true")
    ELSE IF m.v.size = 0 THEN shrink_empty(m)
    ELSE LET alloc_size == Wrap(m.v.size * m.v.elem_size)
         IN  IF m.v.alloc.realloc THEN shrink_realloc(m, alloc_size, oc)
             ELSE IF m.v.alloc.alloc THEN shrink_alloc(m, alloc_size, oc)
             ELSE Return([m EXCEPT !.v.capacity = m.v.size], "true")

(***************************************************************************)
(* Reading the vector: vector_data_as / vector_at.                         *)
(***************************************************************************)
vector_at(vec, hp, idx) ==
    SubSeq(hp[vec.data], idx * vec.elem_size + 1, (idx + 1) * vec.elem_size)

Contents(vec, hp) ==
    IF vec.data = NULL THEN <<>>
    ELSE [i \in 1..vec.size |-> vector_at(vec, hp, i - 1)]

(***************************************************************************)
(* The state machine.  A caller holds one Vector and calls the API on it;  *)
(* every call is one step.  last records the call just made: its name, its *)
(* arguments (vp: the Vector pointer was non-null, n: the index or the     *)
(* capacity, elem: the element passed, NoElem for a null pointer), what it *)
(* returned and the allocator calls it made.  The caller passes the        *)
(* address of its Vector, so vp is TRUE in every call.  A push or insert   *)
(* is offered while size is below the bound of the specification.          *)
(***************************************************************************)
Values == {1, 2}
ElemSizes == {1, 2}
Outcomes == {"fail", "inplace", "move"}

\* The outcomes that differ: none when the call reaches no allocator call,
\* and "move" only for realloc.
OutcomesOf(calls_allocator, by_realloc) ==
    IF ~calls_allocator THEN {"inplace"}
    ELSE IF by_realloc THEN Outcomes
    ELSE {"fail", "inplace"}

ElemOf(b, es) == [i \in 1..es |-> b + 10 * (i - 1)]
Elems(es) == {ElemOf(b, es) : b \in Values}

Targets == {0, 1, 3, SIZE_MAX \div 2 + 2}
Indices == 0..(MaxSize + 1)


\* What the log of a call says about the allocator.
AllocFailed(l) ==
    \E i \in 1..Len(l.calls) :
        l.calls[i][1] \in {"alloc", "realloc"} /\ l.calls[i][3] = NULL

AllocSucceeded(l) ==
    \E i \in 1..Len(l.calls) :
        l.calls[i][1] \in {"alloc", "realloc"} /\ l.calls[i][3] # NULL
Machine ==
    [v |-> v, heap |-> heap, live |-> live, ndebug |-> ndebug,
     status |-> "run", calls |-> <<>>, ret |-> "none"]

NoCall == [op |-> "init", vp |-> TRUE, n |-> 0, elem |-> NoElem,
           ret |-> "none", calls |-> <<>>]

\* The bytes of a block the vector does not point at are never read again.
Reachable(r) == [a \in Addr |-> IF a = r.v.data THEN r.heap[a] ELSE <<>>]

Step(op, vp, n, elem, r) ==
    /\ v' = r.v
    /\ heap' = Reachable(r)
    /\ live' = r.live
    /\ status' = r.status
    /\ last' = [op |-> op, vp |-> vp, n |-> n, elem |-> elem,
                ret |-> r.ret, calls |-> r.calls]
    /\ UNCHANGED ndebug

InitWith(allocs, sizes) ==
    /\ \E a \in allocs, es \in sizes :
          /\ vector_init_asserts(a, es)
          /\ v = vector_init(a, es)
    /\ heap = [a \in Addr |-> <<>>]
    /\ live = {}
    /\ ndebug \in BOOLEAN
    /\ status = "run"
    /\ last = NoCall
    /\ hist = <<>>

Init == InitWith(Allocators, ElemSizes)

DoReserve(targets) ==
    /\ status = "run"
    /\ \E vp \in {TRUE}, n \in targets :
       \E oc \in OutcomesOf(n > v.capacity, v.data # NULL /\ v.alloc.realloc) :
          Step("reserve", vp, n, NoElem, vector_reserve(Machine, vp, n, oc))

DoPush(limit, vps, nullable) ==
    /\ status = "run"
    /\ v.size < limit
    /\ \E vp \in vps, e \in Elems(v.elem_size) \cup nullable,
          oc \in OutcomesOf(needs_growth(v), v.data # NULL /\ v.alloc.realloc) :
          Step("push", vp, 0, e, vector_push(Machine, vp, e, oc))

DoInsert(limit, indices, nullable) ==
    /\ status = "run"
    /\ v.size < limit
    /\ \E vp \in {TRUE}, i \in indices,
          e \in Elems(v.elem_size) \cup nullable,
          oc \in OutcomesOf(needs_growth(v), v.data # NULL /\ v.alloc.realloc) :
          Step("insert", vp, i, e, vector_insert(Machine, vp, i, e, oc))

Reserve == DoReserve(Targets) /\ UNCHANGED hist

Push == DoPush(MaxSize, {TRUE}, {NoElem}) /\ UNCHANGED hist

Insert == DoInsert(MaxSize, Indices, {NoElem}) /\ UNCHANGED hist

Erase ==
    /\ status = "run"
    /\ \E vp \in {TRUE}, i \in Indices :
          Step("erase", vp, i, NoElem, vector_erase(Machine, vp, i))
    /\ UNCHANGED hist

Pop ==
    /\ status = "run"
    /\ \E vp \in {TRUE} :
          Step("pop", vp, 0, NoElem, vector_pop(Machine, vp))
    /\ UNCHANGED hist

Clear ==
    /\ status = "run"
    /\ \E vp \in {TRUE} :
          Step("clear", vp, 0, NoElem, vector_clear(Machine, vp))
    /\ UNCHANGED hist

ShrinkToFit ==
    /\ status = "run"
    /\ \E vp \in {TRUE},
          oc \in OutcomesOf(v.size # v.capacity /\ v.size # 0, v.alloc.realloc) :
          Step("shrink_to_fit", vp, 0, NoElem,
               vector_shrink_to_fit(Machine, vp, oc))
    /\ UNCHANGED hist

Next == Reserve \/ Push \/ Insert \/ Erase \/ Pop \/ Clear \/ ShrinkToFit

Spec == Init /\ [][Next]_vars

(***************************************************************************)
(* A fresh vector that is only pushed to; hist is the sequence of the      *)
(* elements pushed by the calls in which no allocator call failed.         *)
(***************************************************************************)
PushOnly ==
    /\ DoPush(MaxPush, {TRUE}, {})
    /\ hist' = IF AllocFailed(last') THEN hist ELSE Append(hist, last'.elem)

NextPush == PushOnly

SpecPush == Init /\ [][NextPush]_vars


(***************************************************************************)
(* A fresh vector that only grows, by valid pushes and inserts (at the     *)
(* front, in the middle, at the back).                                     *)
(***************************************************************************)
GrowPush == DoPush(MaxPush, {TRUE}, {}) /\ UNCHANGED hist

GrowInsert ==
    /\ DoInsert(MaxPush, {0, v.size \div 2, v.size}, {})
    /\ UNCHANGED hist

NextGrow == GrowPush \/ GrowInsert

SpecGrow == Init /\ [][NextGrow]_vars
(***************************************************************************)
(* The whole life of a vector: the operations of Next on the live vector,  *)
(* and vector_destroy, which may be called again on the destroyed vector.  *)
(* hist has one entry for each vector_destroy call made so far: the ctx of  *)
(* the allocator the vector held and the allocator calls of the call.      *)
(***************************************************************************)
LiveOp == vector_is_valid(TRUE, v) /\ Next

Destroy ==
    /\ status = "run"
    /\ Len(hist) < MaxDestroy
    /\ Step("vector_destroy", TRUE, 0, NoElem, vector_destroy(Machine, TRUE))
    /\ hist' = Append(hist, <<v.alloc.ctx, last'.calls>>)

NextLife == LiveOp \/ Destroy

SpecLife == Init /\ [][NextLife]_vars

(***************************************************************************)
(* Construction with any arguments: the Vector object holds nothing before *)
(* vector_init is called on it once; a vector that came out valid is then  *)
(* pushed to, and any constructed vector is destroyed.                     *)
(***************************************************************************)
InitAllocators == Allocators \cup {[a EXCEPT !.alloc = FALSE] : a \in Allocators}

InitElemSizes == ElemSizes \cup {0}

InitNone ==
    /\ v = ZeroVector
    /\ heap = [a \in Addr |-> <<>>]
    /\ live = {}
    /\ ndebug \in BOOLEAN
    /\ status = "run"
    /\ last = NoCall
    /\ hist = <<>>

VectorInit ==
    /\ status = "run"
    /\ last = NoCall
    /\ \E a \in InitAllocators, es \in InitElemSizes :
          Step("vector_init", TRUE, es, NoElem,
               vector_init_call(Machine, a, es))
    /\ UNCHANGED hist

InitPush == last # NoCall /\ vector_is_valid(TRUE, v) /\ GrowPush

InitDestroy == last # NoCall /\ Destroy

NextInit == VectorInit \/ InitPush \/ InitDestroy

SpecInit == InitNone /\ [][NextInit]_vars

(***************************************************************************)
(* A fresh vector filled up to the largest capacity a size_t can hold, by  *)
(* pushes and inserts (at the front, at the back) of one element value.    *)
(***************************************************************************)
SatElem == ElemOf(1, v.elem_size)

SatPush ==
    /\ status = "run"
    /\ \E oc \in OutcomesOf(needs_growth(v), v.data # NULL /\ v.alloc.realloc) :
          Step("push", TRUE, 0, SatElem,
               vector_push(Machine, TRUE, SatElem, oc))
    /\ UNCHANGED hist

SatInsert ==
    /\ status = "run"
    /\ \E i \in {0, v.size},
          oc \in OutcomesOf(needs_growth(v), v.data # NULL /\ v.alloc.realloc) :
          Step("insert", TRUE, i, SatElem,
               vector_insert(Machine, TRUE, i, SatElem, oc))
    /\ UNCHANGED hist

NextSat == SatPush \/ SatInsert

SpecSat == Init /\ [][NextSat]_vars

(***************************************************************************)
(* An insert immediately followed by the erase of the same index: after a  *)
(* successful insert hist holds the index with the elements and the        *)
(* capacity the insert found, and the erase of that index taken next marks *)
(* it; any other call empties hist.                                        *)
(***************************************************************************)
RoundReserve == DoReserve(Targets) /\ hist' = <<>>

RoundPush == DoPush(MaxSize, {TRUE}, {}) /\ hist' = <<>>

RoundInsert ==
    /\ DoInsert(MaxSize, Indices, {})
    /\ hist' = IF last'.ret = "true"
               THEN <<"inserted", last'.n, Contents(v, heap), v.capacity>>
               ELSE <<>>

RoundErase ==
    /\ status = "run"
    /\ \E i \in Indices :
          Step("erase", TRUE, i, NoElem, vector_erase(Machine, TRUE, i))
    /\ hist' = IF hist # <<>> /\ hist[1] = "inserted" /\ hist[2] = last'.n
               THEN <<"erased", hist[2], hist[3], hist[4]>>
               ELSE <<>>

NextRound == RoundReserve \/ RoundPush \/ RoundInsert \/ RoundErase

SpecRound == Init /\ [][NextRound]_vars

(***************************************************************************)
(* Properties.                                                             *)
(***************************************************************************)
Elements == Contents(v, heap)

SeqInsert(s, i, e) == SubSeq(s, 1, i) \o <<e>> \o SubSeq(s, i + 1, Len(s))
SeqRemove(s, i) == SubSeq(s, 1, i) \o SubSeq(s, i + 2, Len(s))

\* The call left the vector, its storage and the set of live blocks alone.
Untouched == v' = v /\ heap' = heap /\ live' = live

\* C1: in every state reached from vector_init by reserve, push, insert,
\* erase, pop, clear and shrink_to_fit calls, succeeding or failing,
\* vector_is_valid holds.
C1_AlwaysValid == vector_is_valid(TRUE, v) /\ status # "ub"

C1_Witness ==
    /\ last.op = "insert" /\ AllocFailed(last)
    /\ v.size > 0 /\ v.size = v.capacity

C3_PushOrder ==
    /\ v.size = Len(hist)
    /\ Elements = hist
    /\ (last.op = "push" /\ ~AllocFailed(last) =>
            last.ret = "true" /\ status = "run")

C3_Witness ==
    /\ last.op = "push" /\ last.ret = "true" /\ AllocSucceeded(last)
    /\ v.size = INITIAL_CAPACITY + 1 /\ Len(hist) = v.size

\* C4: a successful vector_insert(index, e) on contents s has index <= size
\* and yields s[0..index) ++ [e] ++ s[index..size), size growing by one,
\* whether or not the insert grew the storage.
C4_Insert ==
    [][last'.op = "insert" /\ last'.ret = "true" =>
          /\ last'.n <= v.size
          /\ v'.size = v.size + 1
          /\ Contents(v', heap') = SeqInsert(Elements, last'.n, last'.elem)]_vars

C4_Witness ==
    /\ last.op = "insert" /\ last.ret = "true" /\ AllocSucceeded(last)
    /\ last.n = 1 /\ v.size = 3

\* C5: vector_erase(index) with index < size returns true and yields
\* s[0..index) ++ s[index+1..size), size decreasing by one, capacity and
\* data unchanged.
C5_Erase ==
    [][last'.op = "erase" /\ last'.n < v.size =>
          /\ last'.ret = "true" /\ status' = "run"
          /\ Contents(v', heap') = SeqRemove(Elements, last'.n)
          /\ v'.size = v.size - 1
          /\ v'.capacity = v.capacity /\ v'.data = v.data
          /\ live' = live /\ last'.calls = <<>>]_vars

C5_Witness ==
    /\ last.op = "erase" /\ last.ret = "true"
    /\ last.n = 0 /\ v.size = 2

\* C6: insert with index > size or no element, push with no element, erase
\* with index >= size and pop on an empty vector return false (abort in the
\* asserting build), call no allocator and change nothing.
InvalidCall(l, vec) ==
    \/ l.op = "insert" /\ (l.n > vec.size \/ l.elem = NoElem)
    \/ l.op = "push" /\ l.elem = NoElem
    \/ l.op = "erase" /\ l.n >= vec.size
    \/ l.op = "pop" /\ vec.size = 0

C6_Rejected ==
    [][InvalidCall(last', v) =>
          /\ IF ndebug THEN last'.ret = "false" /\ status' = "run"
                       ELSE status' = "abort"
          /\ last'.calls = <<>>
          /\ Untouched]_vars

C6_Witness ==
    /\ last.op = "insert" /\ last.n > v.size /\ last.elem # NoElem
    /\ last.ret = "false" /\ status = "run"
    /\ v.size > 0 /\ v.size = v.capacity

\* C7: vector_reserve(target) with target <= capacity returns true, calls no
\* allocator and changes nothing; with target > capacity and an allocator
\* call that succeeds it returns true with capacity = target, size and the
\* elements unchanged.
C7_Reserve ==
    [][last'.op = "reserve" =>
          /\ last'.n <= v.capacity =>
                /\ last'.ret = "true" /\ status' = "run"
                /\ last'.calls = <<>> /\ Untouched
          /\ last'.n > v.capacity /\ AllocSucceeded(last') =>
                /\ last'.ret = "true" /\ status' = "run"
                /\ v'.capacity = last'.n
                /\ v'.size = v.size
                /\ Contents(v', heap') = Elements]_vars

C7_Witness ==
    /\ last.op = "reserve" /\ last.ret = "true" /\ AllocSucceeded(last)
    /\ v.capacity = last.n /\ v.size > 1

\* C8: vector_reserve(target) with target * elem_size > SIZE_MAX fails
\* without calling the allocator and without changing the vector, and a
\* reserve never requests a byte count other than the exact product
\* target * elem_size.
C8_Overflow ==
    [][last'.op = "reserve" =>
          /\ last'.n * v.elem_size > SIZE_MAX =>
                /\ last'.ret # "true"
                /\ IF ndebug THEN last'.ret = "false" /\ status' = "run"
                             ELSE status' = "abort"
                /\ last'.calls = <<>> /\ Untouched
          /\ \A i \in 1..Len(last'.calls) :
                last'.calls[i][1] \in {"alloc", "realloc"} =>
                    last'.calls[i][2] = last'.n * v.elem_size]_vars

C8_Witness ==
    /\ last.op = "reserve" /\ last.n * v.elem_size > SIZE_MAX
    /\ last.n > v.capacity
    /\ last.ret = "false" /\ status = "run" /\ last.calls = <<>>
    /\ v.size > 0

\* C9: push and insert call the allocator, and change the capacity, only
\* when size = capacity at entry; the capacity then becomes 8 if it was 0 and
\* twice the capacity otherwise; so on a fresh vector that only grows the
\* capacity is 8 after the 1st to 8th element, 16 after the 9th, and always
\* the smallest 8 * 2^k >= size.
SmallestCapacity(n) ==
    LET caps == {8 * 2^k : k \in 0..W}
    IN  CHOOSE c \in caps : c >= n /\ \A d \in caps : d >= n => c <= d

C9_Growth ==
    [][last'.op \in {"push", "insert"} =>
          /\ last'.calls # <<>> => v.size = v.capacity
          /\ v'.capacity # v.capacity =>
                /\ v.size = v.capacity
                /\ v'.capacity = IF v.capacity = 0 THEN 8 ELSE 2 * v.capacity
          /\ v.size = v.capacity /\ AllocSucceeded(last') =>
                v'.capacity # v.capacity
          /\ v'.size > 0 => v'.capacity = SmallestCapacity(v'.size)
          /\ v'.size \in 1..8 => v'.capacity = 8
          /\ v'.size = 9 => v'.capacity = 16]_vars

C9_Witness ==
    /\ last.op = "push" /\ last.ret = "true" /\ AllocSucceeded(last)
    /\ v.size = 9 /\ v.capacity = 16

\* C10: with an allocator that has neither realloc nor free, push, insert,
\* reserve and shrink_to_fit call only alloc, at most once; a change to a
\* non-zero capacity is one successful alloc into a new block that receives
\* the elements, the old block being left as it is; the call succeeds when
\* its alloc succeeds, and the elements are preserved.
AllocOnly == ~v.alloc.realloc /\ ~v.alloc.free

C11_ShrinkToFit ==
    [][last'.op = "shrink_to_fit" =>
          /\ last'.ret = "true" =>
                /\ v'.capacity = v'.size /\ v'.size = v.size
                /\ Contents(v', heap') = Elements
          /\ v.size = v.capacity =>
                last'.ret = "true" /\ last'.calls = <<>> /\ Untouched
          /\ v.size = 0 /\ v.capacity > 0 =>
                /\ last'.ret = "true" /\ status' = "run"
                /\ v'.data = NULL /\ v'.capacity = 0
                /\ IF v.alloc.free
                   THEN last'.calls = <<<<"free", 0, v.data>>>>
                        /\ live' = live \ {v.data}
                   ELSE last'.calls = <<>> /\ live' = live]_vars

C11_Witness ==
    /\ last.op = "shrink_to_fit" /\ last.ret = "true" /\ AllocSucceeded(last)
    /\ v.size = 2 /\ v.capacity = 2

\* C12: vector_clear sets size to 0, leaves capacity and data unchanged and
\* makes no allocator call; a second vector_clear leaves the state exactly
\* as the first one left it.
C12_Clear ==
    [][last'.op = "clear" =>
          /\ v' = [v EXCEPT !.size = 0]
          /\ heap' = heap /\ live' = live /\ status' = "run"
          /\ last'.calls = <<>>
          /\ last.op = "clear" => UNCHANGED vars]_vars

C12_Witness ==
    /\ last.op = "clear" /\ v.size = 0 /\ v.capacity > 1
    /\ v.data # NULL /\ heap[v.data][1] # Uninit

\* C13: a vector is either live (vector_is_valid holds) or destroyed.  No
\* operation other than vector_destroy changes elem_size or the allocator
\* record or takes a live vector out of the live state; vector_destroy
\* releases the storage through free at most once, exactly when data is
\* non-null and free is present, and leaves size, capacity, elem_size, data
\* and the four allocator fields zero/null, where vector_is_valid is false.
C13_Lifecycle ==
    [][/\ vector_is_valid(TRUE, v') \/ v' = ZeroVector
       /\ vector_is_valid(TRUE, v) /\ last'.op # "vector_destroy" =>
             /\ vector_is_valid(TRUE, v')
             /\ v'.elem_size = v.elem_size
             /\ v'.alloc = v.alloc
       /\ last'.op = "vector_destroy" =>
             /\ status' = "run"
             /\ v' = ZeroVector
             /\ ~vector_is_valid(TRUE, v')
             /\ IF v.data # NULL /\ v.alloc.free
                THEN last'.calls = <<<<"free", 0, v.data>>>>
                     /\ live' = live \ {v.data}
                ELSE last'.calls = <<>> /\ live' = live]_vars

C13_Witness ==
    /\ last.op = "vector_destroy"
    /\ last.calls # <<>>
    /\ v = ZeroVector
    /\ live = {}

\* C14: vector_init rejects construction whenever elem_size = 0 or the
\* allocator has no alloc, so that construction never produces a vector with
\* elem_size = 0 or a null alloc slot; otherwise it produces the empty
\* vector (size 0, capacity 0, data null) with the given elem_size.
C14_InitRejects ==
    last.op = "vector_init" =>
        \/ status = "abort"
        \/ /\ status = "run"
           /\ v.elem_size > 0 /\ v.alloc.alloc
           /\ v.elem_size = last.n
           /\ v.size = 0 /\ v.capacity = 0 /\ v.data = NULL

\* The outcome of a call: result, allocator calls, vector record, storage
\* and live blocks.
Outcome(r) == [r EXCEPT !.heap = Reachable(r)]

\* C15: on a vector with size > 0, vector_pop and vector_erase(size - 1)
\* return the same result and produce identical states (size, capacity, data
\* pointer, elements at indices < size); on an empty vector vector_pop
\* fails.
C15_PopIsErase ==
    LET p == vector_pop(Machine, TRUE)
    IN  IF v.size > 0
        THEN /\ p.ret = "true"
             /\ Outcome(p) = Outcome(vector_erase(Machine, TRUE, v.size - 1))
        ELSE /\ p.ret # "true"
             /\ p.v = v /\ p.heap = heap /\ p.live = live

C15_Witness ==
    /\ last.op = "pop" /\ last.ret = "true"
    /\ v.size = 2 /\ v.capacity > 3

\* C16: vector_insert(size, e) and vector_push(e) return the same result,
\* make the same allocator calls and produce identical states (size,
\* capacity, element sequence), both when the vector is full and when it is
\* not.
C16_InsertAtEndIsPush ==
    \A e \in Elems(v.elem_size),
       oc \in OutcomesOf(needs_growth(v), v.data # NULL /\ v.alloc.realloc) :
        LET p == vector_push(Machine, TRUE, e, oc)
            i == vector_insert(Machine, TRUE, v.size, e, oc)
        IN  /\ Outcome(p) = Outcome(i)
            /\ Contents(p.v, p.heap) = Contents(i.v, i.heap)
            /\ p.ret = "true" =>
                  Contents(i.v, i.heap) = Append(Elements, e)

\* C16, the vector full: an insert at the end that grew the storage.
C16_Witness ==
    /\ last.op = "insert" /\ last.ret = "true" /\ last.n = v.size - 1
    /\ AllocSucceeded(last) /\ v.size = 3

\* The index of the slot a push or an insert step writes.
WrittenIndex == IF last'.op = "push" THEN v.size ELSE last'.n

\* C17: with a W-bit size_t, whenever vector_push or vector_insert returns
\* true the slot it wrote lies inside the storage (written index < capacity
\* after the call), a capacity that grew is greater than the size before
\* the call, and size is incremented without wrapping; when capacity >
\* SIZE_MAX / 2 the growth target is SIZE_MAX, and a push or insert on a
\* vector with size = capacity = SIZE_MAX fails instead of writing past the
\* buffer.
C17_GrowthInBounds ==
    [][last'.op \in {"push", "insert"} =>
          /\ status' # "ub"
          /\ last'.ret = "true" =>
                /\ WrittenIndex < v'.capacity
                /\ v'.size = v.size + 1
                /\ v'.capacity # v.capacity => v'.capacity > v.size
          /\ v.capacity > SIZE_MAX \div 2 =>
                grow_capacity(v.capacity) = SIZE_MAX
          /\ v.size = SIZE_MAX /\ v.capacity = SIZE_MAX =>
                last'.ret = "false" \/ status' = "abort"]_vars

\* C18: with the malloc allocator (alloc, realloc and free), over any
\* sequence of operations: the data pointer is null or the single block
\* allocated and not released; no block is released twice or used after
\* release; one block is live when capacity > 0 and none otherwise; after
\* vector_destroy, also when called twice in a row, no block is allocated.
C18_SingleOwner ==
    [][/\ v.alloc = malloc_allocator =>
             /\ status' # "ub"
             /\ v'.data = NULL \/ live' = {v'.data}
             /\ live' = IF v'.capacity > 0 THEN {v'.data} ELSE {}
             /\ \A i \in 1..Len(last'.calls) :
                   last'.calls[i][1] = "free" => last'.calls[i][3] \in live
             /\ last'.op = "vector_destroy" => live' = {}
       /\ v = ZeroVector /\ last.op = "vector_destroy" =>
             /\ last'.op = "vector_destroy"
             /\ last'.calls = <<>> /\ status' = "run"
             /\ live' = live /\ v' = ZeroVector]_vars

C18_Witness ==
    /\ Len(hist) = 2
    /\ \E p \in Addr : hist[1] = <<malloc_allocator.ctx, <<<<"free", 0, p>>>>>>
    /\ hist[2] = <<NULL, <<>>>>
    /\ last.op = "vector_destroy"
    /\ v = ZeroVector /\ live = {}

\* The requests for storage (alloc or realloc calls) in the log of a call.
Requests(l) ==
    {i \in 1..Len(l.calls) : l.calls[i][1] \in {"alloc", "realloc"}}

\* The calls that change no capacity: no allocator call, capacity, data
\* pointer and live blocks as before.
NoCapacityChange ==
    (\/ last'.op \in {"erase", "pop", "clear"}
     \/ last'.op \in {"push", "insert"} /\ v.size < v.capacity)
    => (/\ last'.calls = <<>>
        /\ v'.capacity = v.capacity /\ v'.data = v.data
        /\ live' = live)

\* C19 as stated: vector_push and vector_insert with size < capacity at
\* entry, and vector_erase, vector_pop and vector_clear always, make no
\* allocator call and leave capacity and the data pointer unchanged; push
\* and insert call the allocator only when size = capacity at entry, and
\* then exactly once.
C19_Original ==
    [][/\ NoCapacityChange
       /\ last'.op \in {"push", "insert"} /\ last'.calls # <<>> =>
             v.size = v.capacity /\ Len(last'.calls) = 1]_vars

\* C19: as above, except that the one call is the request for storage (alloc
\* or realloc); an allocator without realloc but with free is called a
\* second time, to free the old block after the copy.
C19_Frame ==
    [][/\ NoCapacityChange
       /\ last'.op \in {"push", "insert"} /\ last'.calls # <<>> =>
             /\ v.size = v.capacity
             /\ Requests(last') = {1}
             /\ IF /\ ~v.alloc.realloc /\ v.alloc.free /\ v.data # NULL
                   /\ AllocSucceeded(last')
                THEN last'.calls[2] = <<"free", 0, v.data>>
                     /\ Len(last'.calls) = 2
                ELSE Len(last'.calls) = 1]_vars

C19_Witness ==
    /\ last.op = "insert" /\ last.ret = "true"
    /\ Len(last.calls) = 2 /\ last.calls[2][1] = "free"
    /\ v.size = 3 /\ v.capacity = 4

\* C20: a successful vector_insert(index, e) immediately followed by
\* vector_erase(index) succeeds and restores the size and the element
\* sequence the insert found; the capacity is not smaller than it was.
C20_RoundTrip ==
    hist # <<>> /\ hist[1] = "erased" =>
        /\ status = "run"
        /\ last.op = "erase" /\ last.ret = "true"
        /\ v.size = Len(hist[3])
        /\ Elements = hist[3]
        /\ v.capacity >= hist[4]

C20_Witness ==
    /\ hist # <<>> /\ hist[1] = "erased"
    /\ hist[2] = 1 /\ Len(hist[3]) = 2
    /\ v.capacity > hist[4]

====
